---------------------------- MODULE Spec2Model ----------------------------
(***************************************************************************)
(* A model of the rewriting HTTP proxy of src/main.py: the URL validator,  *)
(* the base64 identifier codec, the HTML and CSS rewriters and the two     *)
(* route handlers /browse and /resource/<id>.                              *)
(*                                                                         *)
(* A Python str is a sequence of characters.  A character is a one-letter  *)
(* TLA+ string for printable ASCII and "U+<code point>" otherwise, so that *)
(* every string of the model can be compared with every other.  Bytes are  *)
(* the numbers 0..255.                                                     *)
(***************************************************************************)
EXTENDS Integers, Sequences, FiniteSets, TLC

(***************************************************************************)
(* Characters                                                              *)
(***************************************************************************)

\* The printable ASCII characters, code points 32..126 in order (the grave
\* accent, which a TLA+ string cannot hold, is written "U+96").
Ascii ==
  << " ", "!", "\"", "#", "$", "%", "&", "'", "(", ")", "*", "+", ",", "-", ".", "/",
     "0", "1", "2", "3", "4", "5", "6", "7", "8", "9", ":", ";", "<", "=", ">", "?",
     "@", "A", "B", "C", "D", "E", "F", "G", "H", "I", "J", "K", "L", "M", "N", "O",
     "P", "Q", "R", "S", "T", "U", "V", "W", "X", "Y", "Z", "[", "\\", "]", "^", "_",
     "U+96", "a", "b", "c", "d", "e", "f", "g", "h", "i", "j", "k", "l", "m", "n", "o",
     "p", "q", "r", "s", "t", "u", "v", "w", "x", "y", "z", "{", "|", "}", "~" >>

\* chr(): the character of a code point.
Chr(n) == IF n \in 32..126 THEN Ascii[n - 31] ELSE "U+" \o ToString(n)

\* The code points the model's inputs are written with: ASCII, and one
\* character of each longer UTF-8 width (e-acute, the euro sign, an emoji).
InputCodes == (32..126) \cup {233, 8364, 128512}

OrdTable == [c \in {Chr(n) : n \in InputCodes} |-> CHOOSE n \in InputCodes : Chr(n) = c]

\* ord(): the code point of a character.
Ord(c) == OrdTable[c]

Range(s) == {s[i] : i \in 1..Len(s)}

AsciiUpper == {Ascii[i] : i \in 34..59}
AsciiLower == {Ascii[i] : i \in 66..91}
AsciiDigit == {Ascii[i] : i \in 17..26}

\* str.lower() on the characters the model uses (ASCII letters fold, every
\* other character of InputCodes is its own lower case).
LowerChar(c) == IF c \in AsciiUpper THEN Chr(Ord(c) + 32) ELSE c

Lower(s) == [i \in 1..Len(s) |-> LowerChar(s[i])]

\* s.startswith(p)
StartsWith(s, p) == Len(s) >= Len(p) /\ SubSeq(s, 1, Len(p)) = p

\* s[n:] for n >= 0
Drop(s, n) == IF n >= Len(s) THEN << >> ELSE SubSeq(s, n + 1, Len(s))

\* s[:n] for n >= 0
Take(s, n) == IF n >= Len(s) THEN s ELSE SubSeq(s, 1, n)

\* s.find(c, start): the 0-based index of the first c at or after the 0-based
\* index start, or -1.
FindFrom(s, c, start) ==
  LET hits == {i \in (start + 1)..Len(s) : s[i] = c}
  IN  IF hits = {} THEN -1 ELSE (CHOOSE i \in hits : \A j \in hits : i <= j) - 1

Find(s, c) == FindFrom(s, c, 0)

\* s.rfind(c)
RFind(s, c) ==
  LET hits == {i \in 1..Len(s) : s[i] = c}
  IN  IF hits = {} THEN -1 ELSE (CHOOSE i \in hits : \A j \in hits : i >= j) - 1

Contains(s, c) == \E i \in 1..Len(s) : s[i] = c

\* Optional values: Python's None, or a str.
None == [some |-> FALSE, v |-> << >>]
Some(s) == [some |-> TRUE, v |-> s]

\* A local variable: the value v under the name In gives it.
With(v, In(_)) == In(v)

(***************************************************************************)
(* The identifier codec: UTF-8 and URL-safe base64                         *)
(***************************************************************************)

\* str.encode('utf-8') of one code point.
Utf8OfCode(n) ==
  IF n < 128 THEN << n >>
  ELSE IF n < 2048 THEN << 192 + (n \div 64), 128 + (n % 64) >>
  ELSE IF n < 65536 THEN << 224 + (n \div 4096), 128 + ((n \div 64) % 64), 128 + (n % 64) >>
  ELSE << 240 + (n \div 262144), 128 + ((n \div 4096) % 64),
          128 + ((n \div 64) % 64), 128 + (n % 64) >>

RECURSIVE Utf8Encode(_)
Utf8Encode(s) ==
  IF s = << >> THEN << >> ELSE Utf8OfCode(Ord(Head(s))) \o Utf8Encode(Tail(s))

IsCont(b) == b \in 128..191

\* bytes.decode('utf-8'), strict: the characters, or None where Python
\* raises UnicodeDecodeError (a stray or missing continuation byte, an
\* overlong form, a surrogate, a code point above U+10FFFF).
RECURSIVE Utf8Decode(_)
Utf8Decode(b) ==
  IF b = << >> THEN Some(<< >>)
  ELSE
    LET b1 == b[1]
        n  == IF b1 < 128 THEN 1
              ELSE IF b1 \in 194..223 THEN 2
              ELSE IF b1 \in 224..239 THEN 3
              ELSE IF b1 \in 240..244 THEN 4
              ELSE 0
        wellFormed ==
          /\ n > 0
          /\ Len(b) >= n
          /\ \A i \in 2..n : IsCont(b[i])
          /\ (b1 = 224) => b[2] >= 160
          /\ (b1 = 237) => b[2] <= 159
          /\ (b1 = 240) => b[2] >= 144
          /\ (b1 = 244) => b[2] <= 143
        code ==
          CASE n = 1 -> b1
            [] n = 2 -> (b1 - 192) * 64 + (b[2] - 128)
            [] n = 3 -> (b1 - 224) * 4096 + (b[2] - 128) * 64 + (b[3] - 128)
            [] OTHER -> (b1 - 240) * 262144 + (b[2] - 128) * 4096
                        + (b[3] - 128) * 64 + (b[4] - 128)
    IN  IF ~wellFormed THEN None
        ELSE LET rest == Utf8Decode(Drop(b, n))
             IN  IF rest.some THEN Some(<< Chr(code) >> \o rest.v) ELSE None

\* The URL-safe base64 alphabet: values 0..63 in order.
UrlSafeAlphabet ==
  << "A", "B", "C", "D", "E", "F", "G", "H", "I", "J", "K", "L", "M", "N", "O", "P",
     "Q", "R", "S", "T", "U", "V", "W", "X", "Y", "Z", "a", "b", "c", "d", "e", "f",
     "g", "h", "i", "j", "k", "l", "m", "n", "o", "p", "q", "r", "s", "t", "u", "v",
     "w", "x", "y", "z", "0", "1", "2", "3", "4", "5", "6", "7", "8", "9", "-", "_" >>

\* The standard alphabet differs in its last two characters.
StdAlphabet == [i \in 1..64 |-> IF i = 63 THEN "+" ELSE IF i = 64 THEN "/" ELSE UrlSafeAlphabet[i]]

\* base64 text of a byte string in a given alphabet, "=" padded.
RECURSIVE B64EncodeWith(_, _)
B64EncodeWith(alpha, b) ==
  IF b = << >> THEN << >>
  ELSE IF Len(b) = 1 THEN
    << alpha[(b[1] \div 4) + 1], alpha[((b[1] % 4) * 16) + 1], "=", "=" >>
  ELSE IF Len(b) = 2 THEN
    << alpha[(b[1] \div 4) + 1], alpha[((b[1] % 4) * 16 + (b[2] \div 16)) + 1],
       alpha[((b[2] % 16) * 4) + 1], "=" >>
  ELSE
    << alpha[(b[1] \div 4) + 1], alpha[((b[1] % 4) * 16 + (b[2] \div 16)) + 1],
       alpha[((b[2] % 16) * 4 + (b[3] \div 64)) + 1], alpha[(b[3] % 64) + 1] >>
    \o B64EncodeWith(alpha, Drop(b, 3))

\* base64.urlsafe_b64encode
UrlSafeB64Encode(b) == B64EncodeWith(UrlSafeAlphabet, b)

\* bytes.translate of urlsafe_b64decode: "-" and "_" become "+" and "/".
UrlSafeTranslate(s) ==
  [i \in 1..Len(s) |-> IF s[i] = "-" THEN "+" ELSE IF s[i] = "_" THEN "/" ELSE s[i]]

\* The 6-bit value of a standard-alphabet character, or 64 for any other.
B64Value(c) ==
  IF \E i \in 1..64 : StdAlphabet[i] = c
  THEN (CHOOSE i \in 1..64 : StdAlphabet[i] = c) - 1
  ELSE 64

\* binascii.a2b_base64 in its default, non-strict mode: characters outside
\* the alphabet are skipped, a completed pad sequence ends the input, and
\* leftover characters of an unfinished quad raise binascii.Error (None).
\* st is [quad_pos, leftchar, pads, out].
RECURSIVE A2bBase64(_, _)
A2bBase64(s, st) ==
  IF s = << >> THEN (IF st.quad_pos # 0 THEN None ELSE Some(st.out))
  ELSE
    LET c == Head(s)
        v == B64Value(c)
    IN  IF c = "=" THEN
          IF st.quad_pos >= 2 /\ st.quad_pos + st.pads + 1 >= 4
          THEN Some(st.out)
          ELSE A2bBase64(Tail(s),
                 [st EXCEPT !.pads = IF st.quad_pos >= 2 THEN st.pads + 1 ELSE st.pads])
        ELSE IF v >= 64 THEN A2bBase64(Tail(s), st)
        ELSE
          A2bBase64(Tail(s),
            CASE st.quad_pos = 0 ->
                   [quad_pos |-> 1, leftchar |-> v, pads |-> 0, out |-> st.out]
              [] st.quad_pos = 1 ->
                   [quad_pos |-> 2, leftchar |-> v % 16, pads |-> 0,
                    out |-> Append(st.out, st.leftchar * 4 + (v \div 16))]
              [] st.quad_pos = 2 ->
                   [quad_pos |-> 3, leftchar |-> v % 4, pads |-> 0,
                    out |-> Append(st.out, st.leftchar * 16 + (v \div 4))]
              [] OTHER ->
                   [quad_pos |-> 0, leftchar |-> 0, pads |-> 0,
                    out |-> Append(st.out, st.leftchar * 64 + v)])

\* base64.urlsafe_b64decode
UrlSafeB64Decode(s) ==
  A2bBase64(UrlSafeTranslate(s), [quad_pos |-> 0, leftchar |-> 0, pads |-> 0, out |-> << >>])

\* Mutant of encode_url: the standard alphabet instead of the URL-safe one.
encode_url_std(url) == B64EncodeWith(StdAlphabet, Utf8Encode(url))

\* encode_url(url): base64.urlsafe_b64encode(url.encode('utf-8')).decode('utf-8')
encode_url(url) == UrlSafeB64Encode(Utf8Encode(url))

\* decode_url(encoded_url): the decoded str, or None on any exception.
\* encoded_url.encode('utf-8') turns a non-ASCII character into bytes above
\* 127, none of which is in the alphabet: the decoder skips them as it skips
\* the character here.
decode_url(encoded_url) ==
  With(UrlSafeB64Decode(encoded_url), LAMBDA raw :
    IF raw.some THEN Utf8Decode(raw.v) ELSE None)

(***************************************************************************)
(* urllib.parse, as the program uses it (CPython 3.11)                     *)
(***************************************************************************)

\* urllib.parse.uses_relative
uses_relative ==
  { <<  >>, << "f", "t", "p" >>, << "h", "t", "t", "p" >>, << "g", "o", "p", "h", "e", "r" >>,
    << "n", "n", "t", "p" >>, << "i", "m", "a", "p" >>, << "w", "a", "i", "s" >>, << "f", "i", "l", "e" >>,
    << "h", "t", "t", "p", "s" >>, << "s", "h", "t", "t", "p" >>, << "m", "m", "s" >>, << "p", "r", "o", "s", "p", "e", "r", "o" >>,
    << "r", "t", "s", "p" >>, << "r", "t", "s", "p", "s" >>, << "r", "t", "s", "p", "u" >>, << "s", "f", "t", "p" >>,
    << "s", "v", "n" >>, << "s", "v", "n", "+", "s", "s", "h" >>, << "w", "s" >>, << "w", "s", "s" >> }

\* urllib.parse.uses_netloc
uses_netloc ==
  { <<  >>, << "f", "t", "p" >>, << "h", "t", "t", "p" >>, << "g", "o", "p", "h", "e", "r" >>,
    << "n", "n", "t", "p" >>, << "t", "e", "l", "n", "e", "t" >>, << "i", "m", "a", "p" >>, << "w", "a", "i", "s" >>,
    << "f", "i", "l", "e" >>, << "m", "m", "s" >>, << "h", "t", "t", "p", "s" >>, << "s", "h", "t", "t", "p" >>,
    << "s", "n", "e", "w", "s" >>, << "p", "r", "o", "s", "p", "e", "r", "o" >>, << "r", "t", "s", "p" >>, << "r", "t", "s", "p", "s" >>,
    << "r", "t", "s", "p", "u" >>, << "r", "s", "y", "n", "c" >>, << "s", "v", "n" >>, << "s", "v", "n", "+", "s", "s", "h" >>,
    << "s", "f", "t", "p" >>, << "n", "f", "s" >>, << "g", "i", "t" >>, << "g", "i", "t", "+", "s", "s", "h" >>,
    << "w", "s" >>, << "w", "s", "s" >> }

\* urllib.parse.uses_params
uses_params ==
  { <<  >>, << "f", "t", "p" >>, << "h", "d", "l" >>, << "p", "r", "o", "s", "p", "e", "r", "o" >>,
    << "h", "t", "t", "p" >>, << "i", "m", "a", "p" >>, << "h", "t", "t", "p", "s" >>, << "s", "h", "t", "t", "p" >>,
    << "r", "t", "s", "p" >>, << "r", "t", "s", "p", "s" >>, << "r", "t", "s", "p", "u" >>, << "s", "i", "p" >>,
    << "s", "i", "p", "s" >>, << "m", "m", "s" >>, << "s", "f", "t", "p" >>, << "t", "e", "l" >> }

\* urllib.parse.scheme_chars
scheme_chars == AsciiLower \cup AsciiUpper \cup AsciiDigit \cup {"+", "-", "."}

\* The characters urlsplit strips from the left of a URL (C0 controls and
\* space) and those it removes anywhere (tab, CR, LF).
C0ControlOrSpace == {Chr(n) : n \in 0..32}
UnsafeToRemove == {Chr(9), Chr(10), Chr(13)}

RECURSIVE LStrip(_, _)
LStrip(s, chars) ==
  IF s # << >> /\ Head(s) \in chars THEN LStrip(Tail(s), chars) ELSE s

\* The index (0-based) of the first of "/", "?", "#" at or after start, or
\* the length of the string: _splitnetloc's delimiter.
NetlocEnd(url, start) ==
  LET hits == {i \in (start + 1)..Len(url) : url[i] \in {"/", "?", "#"}}
  IN  IF hits = {} THEN Len(url) ELSE (CHOOSE i \in hits : \A j \in hits : i <= j) - 1

\* A ValueError of urlsplit.
SplitError ==
  [ok |-> FALSE, scheme |-> << >>, netloc |-> << >>, path |-> << >>,
   params |-> << >>, query |-> << >>, fragment |-> << >>]

\* urlsplit(url, scheme): the five components (params left empty), or
\* SplitError where it raises "Invalid IPv6 URL" for a netloc with one
\* bracket and not the other.  A netloc with both brackets goes on to
\* ipaddress's parse of the bracketed host, and a non-ASCII netloc to an
\* NFKC check; the model's inputs hold no netloc with both brackets and no
\* character that NFKC changes, so neither raises here.
urlsplit(url0, scheme0) ==
  With(SelectSeq(LStrip(url0, C0ControlOrSpace), LAMBDA c : c \notin UnsafeToRemove),
       LAMBDA url1 :
  With(Find(url1, ":"), LAMBDA i :
  With(/\ i > 0
       /\ url1[1] \in AsciiLower \cup AsciiUpper
       /\ \A k \in 1..i : url1[k] \in scheme_chars, LAMBDA hasScheme :
  With(IF hasScheme THEN Lower(Take(url1, i)) ELSE scheme0, LAMBDA scheme :
  With(IF hasScheme THEN Drop(url1, i + 1) ELSE url1, LAMBDA url2 :
  With(Take(url2, 2) = << "/", "/" >>, LAMBDA hasNetloc :
  With(NetlocEnd(url2, 2), LAMBDA delim :
  With(IF hasNetloc THEN SubSeq(url2, 3, delim) ELSE << >>, LAMBDA netloc :
  With(IF hasNetloc THEN Drop(url2, delim) ELSE url2, LAMBDA url3 :
  With(Find(url3, "#"), LAMBDA h :
  With(IF h >= 0 THEN Drop(url3, h + 1) ELSE << >>, LAMBDA fragment :
  With(IF h >= 0 THEN Take(url3, h) ELSE url3, LAMBDA url4 :
  With(Find(url4, "?"), LAMBDA q :
  With(IF q >= 0 THEN Drop(url4, q + 1) ELSE << >>, LAMBDA query :
  With(IF q >= 0 THEN Take(url4, q) ELSE url4, LAMBDA path :
    IF Contains(netloc, "[") # Contains(netloc, "]")
    THEN SplitError
    ELSE [ok |-> TRUE, scheme |-> scheme, netloc |-> netloc, path |-> path,
          params |-> << >>, query |-> query, fragment |-> fragment])))))))))))))))

\* _splitparams(url): the index of the ";" that starts the params, or -1.
ParamsAt(url) ==
  IF Contains(url, "/") THEN FindFrom(url, ";", RFind(url, "/")) ELSE Find(url, ";")

\* urlparse(url, scheme): urlsplit, then the params split off the path.
urlparse(url, scheme0) ==
  With(urlsplit(url, scheme0), LAMBDA r :
  With(ParamsAt(r.path), LAMBDA i :
    IF r.ok /\ r.scheme \in uses_params /\ Contains(r.path, ";") /\ i >= 0
    THEN [r EXCEPT !.path = Take(r.path, i), !.params = Drop(r.path, i + 1)]
    ELSE r))

\* urlunparse((scheme, netloc, path, params, query, fragment))
urlunparse(r) ==
  With(IF r.params # << >> THEN r.path \o << ";" >> \o r.params ELSE r.path, LAMBDA u1 :
  With(IF r.netloc # << >>
          \/ (r.scheme # << >> /\ r.scheme \in uses_netloc /\ Take(u1, 2) # << "/", "/" >>)
       THEN << "/", "/" >> \o r.netloc
            \o (IF u1 # << >> /\ Head(u1) # "/" THEN << "/" >> \o u1 ELSE u1)
       ELSE u1, LAMBDA u2 :
  With(IF r.scheme # << >> THEN r.scheme \o << ":" >> \o u2 ELSE u2, LAMBDA u3 :
  With(IF r.query # << >> THEN u3 \o << "?" >> \o r.query ELSE u3, LAMBDA u4 :
    IF r.fragment # << >> THEN u4 \o << "#" >> \o r.fragment ELSE u4))))

\* s.split(c): the parts between the occurrences of c.
RECURSIVE Split(_, _)
Split(s, c) ==
  LET i == Find(s, c)
  IN  IF i < 0 THEN << s >> ELSE << Take(s, i) >> \o Split(Drop(s, i + 1), c)

\* c.join(parts)
RECURSIVE Join(_, _)
Join(parts, c) ==
  IF parts = << >> THEN << >>
  ELSE IF Len(parts) = 1 THEN parts[1]
  ELSE parts[1] \o << c >> \o Join(Tail(parts), c)

\* The dot-segment loop of urljoin: ".." pops (an empty stack stays empty),
\* "." is dropped, any other segment is pushed.
RECURSIVE ResolveSegments(_, _)
ResolveSegments(segments, resolved) ==
  IF segments = << >> THEN resolved
  ELSE LET seg == Head(segments)
       IN  IF seg = << ".", "." >>
           THEN ResolveSegments(Tail(segments),
                  IF resolved = << >> THEN resolved ELSE Take(resolved, Len(resolved) - 1))
           ELSE IF seg = << "." >> THEN ResolveSegments(Tail(segments), resolved)
           ELSE ResolveSegments(Tail(segments), Append(resolved, seg))

\* urljoin(base, url): [ok, v], ok false where urlparse raises ValueError.
urljoin(base, url) ==
  IF base = << >> THEN [ok |-> TRUE, v |-> url]
  ELSE IF url = << >> THEN [ok |-> TRUE, v |-> base]
  ELSE
    With(urlparse(base, << >>), LAMBDA b :
    With(IF b.ok THEN urlparse(url, b.scheme) ELSE SplitError, LAMBDA u :
    With(IF u.scheme \in uses_netloc THEN b.netloc ELSE u.netloc, LAMBDA netloc :
    With(Split(b.path, "/"), LAMBDA base_parts0 :
    With(IF base_parts0[Len(base_parts0)] # << >>
         THEN Take(base_parts0, Len(base_parts0) - 1)
         ELSE base_parts0, LAMBDA base_parts :
    With(Split(u.path, "/"), LAMBDA url_parts :
    With(base_parts \o url_parts, LAMBDA joined :
    With(IF Take(u.path, 1) = << "/" >> THEN url_parts
         ELSE IF Len(joined) <= 2 THEN joined
         ELSE << joined[1] >>
              \o SelectSeq(SubSeq(joined, 2, Len(joined) - 1), LAMBDA p : p # << >>)
              \o << joined[Len(joined)] >>, LAMBDA segments :
    With(ResolveSegments(segments, << >>), LAMBDA resolved0 :
    With(IF segments[Len(segments)] \in {<< "." >>, << ".", "." >>}
         THEN Append(resolved0, << >>)
         ELSE resolved0, LAMBDA resolved :
    With(Join(resolved, "/"), LAMBDA joinedpath :
    With(IF joinedpath = << >> THEN << "/" >> ELSE joinedpath, LAMBDA newpath :
      IF ~b.ok \/ ~u.ok THEN [ok |-> FALSE, v |-> << >>]
      ELSE IF u.scheme # b.scheme \/ u.scheme \notin uses_relative
        THEN [ok |-> TRUE, v |-> url]
      ELSE
        [ok |-> TRUE,
         v  |-> urlunparse(
                  IF u.scheme \in uses_netloc /\ u.netloc # << >> THEN u
                  ELSE IF u.path = << >> /\ u.params = << >>
                    THEN [u EXCEPT !.netloc = netloc, !.path = b.path,
                                   !.params = b.params,
                                   !.query = IF u.query = << >> THEN b.query
                                             ELSE u.query]
                  ELSE [u EXCEPT !.netloc = netloc, !.path = newpath])]))))))))))))

\* The username and password of a netloc (SplitResult.username / .password):
\* None where the netloc has no "@", or no ":" in its userinfo.
Userinfo(netloc) ==
  With(RFind(netloc, "@"), LAMBDA at :
  With(Take(netloc, at), LAMBDA userinfo :
  With(Find(userinfo, ":"), LAMBDA colon :
    IF at < 0 THEN [username |-> None, password |-> None]
    ELSE IF colon < 0 THEN [username |-> Some(userinfo), password |-> None]
    ELSE [username |-> Some(Take(userinfo, colon)),
          password |-> Some(Drop(userinfo, colon + 1))])))

\* Python truthiness of an optional str.
Truthy(o) == o.some /\ o.v # << >>

HexDigits == << "0", "1", "2", "3", "4", "5", "6", "7", "8", "9", "A", "B", "C", "D", "E", "F" >>

\* The characters quote() never encodes (_ALWAYS_SAFE), and its default
\* safe character "/".
AlwaysSafe == AsciiLower \cup AsciiUpper \cup AsciiDigit \cup {"_", ".", "-", "~"}

QuoteByte(b) ==
  IF b < 128 /\ Chr(b) \in AlwaysSafe \cup {"/"} THEN << Chr(b) >>
  ELSE << "%", HexDigits[(b \div 16) + 1], HexDigits[(b % 16) + 1] >>

RECURSIVE QuoteBytes(_)
QuoteBytes(bs) == IF bs = << >> THEN << >> ELSE QuoteByte(Head(bs)) \o QuoteBytes(Tail(bs))

\* urllib.parse.quote(s): percent-encoding of the UTF-8 bytes of s.
quote(s) == QuoteBytes(Utf8Encode(s))

HexValue(c) ==
  IF c \in AsciiDigit THEN Ord(c) - 48
  ELSE IF c \in {"A", "B", "C", "D", "E", "F"} THEN Ord(c) - 55
  ELSE IF c \in {"a", "b", "c", "d", "e", "f"} THEN Ord(c) - 87
  ELSE -1

\* The bytes of a percent-encoded query value: "%XX" is one byte, "+" is a
\* space, any other character its UTF-8 bytes.
RECURSIVE UnquoteBytes(_)
UnquoteBytes(s) ==
  IF s = << >> THEN << >>
  ELSE IF Head(s) = "%" /\ Len(s) >= 3 /\ HexValue(s[2]) >= 0 /\ HexValue(s[3]) >= 0
    THEN << HexValue(s[2]) * 16 + HexValue(s[3]) >> \o UnquoteBytes(Drop(s, 3))
  ELSE IF Head(s) = "+" THEN << 32 >> \o UnquoteBytes(Tail(s))
  ELSE Utf8OfCode(Ord(Head(s))) \o UnquoteBytes(Tail(s))

\* The value the server reads for a query parameter (request.args): the
\* percent-decoded bytes as UTF-8.  Bytes that are not UTF-8 decode to the
\* replacement character U+FFFD.
query_decode(s) ==
  With(Utf8Decode(UnquoteBytes(s)), LAMBDA d :
    IF d.some THEN d.v ELSE << Chr(65533) >>)

(***************************************************************************)
(* The URL validator and resolver (src/main.py, lines 28-62)               *)
(***************************************************************************)

S_http == << "h", "t", "t", "p" >>
S_https == << "h", "t", "t", "p", "s" >>
S_http_prefix == << "h", "t", "t", "p", ":", "/", "/" >>
S_https_prefix == << "h", "t", "t", "p", "s", ":", "/", "/" >>

\* problematic_prefixes of is_valid_url
problematic_prefixes ==
  { << "b", "l", "o", "b", ":" >>,
    << "d", "a", "t", "a", ":" >>,
    << "j", "a", "v", "a", "s", "c", "r", "i", "p", "t", ":" >>,
    << "m", "a", "i", "l", "t", "o", ":" >>,
    << "t", "e", "l", ":" >>,
    << "f", "i", "l", "e", ":" >> }

\* is_valid_url(url): a ValueError of urlparse is caught and gives False.
is_valid_url(url) ==
  /\ url # << >>
  /\ ~\E p \in problematic_prefixes : StartsWith(Lower(url), p)
  /\ With(urlparse(url, << >>), LAMBDA parsed :
       /\ parsed.ok
       /\ parsed.scheme \in {S_http, S_https}
       /\ parsed.netloc # << >>
       /\ With(Userinfo(parsed.netloc), LAMBDA cred :
            ~(Truthy(cred.username) \/ Truthy(cred.password))))

\* get_base_url(url): scheme://netloc.  Its argument is the URL of a
\* response, which urlparse accepts.
get_base_url(url) ==
  With(urlparse(url, << >>), LAMBDA parsed :
    parsed.scheme \o << ":", "/", "/" >> \o parsed.netloc)

\* make_absolute_url(base_url, relative_url): [ok, v]; ok is false where
\* urljoin raises ValueError, which make_absolute_url does not catch.
make_absolute_url(base_url, relative_url) ==
  IF relative_url = << >> THEN [ok |-> TRUE, v |-> base_url]
  ELSE urljoin(base_url, relative_url)

(***************************************************************************)
(* Documents                                                               *)
(*                                                                         *)
(* A parsed HTML document is the sequence of its elements in document      *)
(* order.  An element is [tag, ref, method, fields, http_equiv]: ref is    *)
(* the attribute the rewriter reads for that tag (href of a, link and      *)
(* base, src of img, script, source and iframe, action of form, charset    *)
(* of meta), None when the attribute is absent; method and fields (the     *)
(* named controls, in tree order) are those of a form; http_equiv is that  *)
(* of a meta of the head.                                                  *)
(***************************************************************************)

Element(tag, ref) ==
  [tag |-> tag, ref |-> ref, method |-> "", fields |-> << >>, http_equiv |-> << >>]

Form(action, method, fields) ==
  [tag |-> "form", ref |-> action, method |-> method, fields |-> fields,
   http_equiv |-> << >>]

Field(name, value) == [name |-> name, value |-> value]

S_proxy_url == << "_", "p", "r", "o", "x", "y", "_", "u", "r", "l" >>
S_url == << "u", "r", "l" >>
S_utf8 == << "u", "t", "f", "-", "8" >>
S_content_type == << "c", "o", "n", "t", "e", "n", "t", "-", "t", "y", "p", "e" >>
S_browse == << "/", "b", "r", "o", "w", "s", "e" >>
S_browse_query == << "/", "b", "r", "o", "w", "s", "e", "?", "u", "r", "l", "=" >>
S_resource == << "/", "r", "e", "s", "o", "u", "r", "c", "e", "/" >>

\* p in s, for strings
HasSubstring(s, p) == \E i \in 0..(Len(s) - Len(p)) : SubSeq(s, i + 1, i + Len(p)) = p

\* The prefixes of an anchor href that the rewriter skips (line 101).
skipped_href_prefixes ==
  { << "j", "a", "v", "a", "s", "c", "r", "i", "p", "t", ":" >>,
    << "#" >>,
    << "m", "a", "i", "l", "t", "o", ":" >>,
    << "t", "e", "l", ":" >> }

\* The (tag, attribute) pairs of resource_tags (lines 117-123).
resource_tags == {"img", "script", "link", "source", "iframe"}

\* The client-side payload appended to the body (lines 134-204).
ProxyScript == Element("proxy_script", None)

\* The <meta charset="utf-8"> inserted first in the head (lines 90-91).
CharsetMeta == Element("meta", Some(S_utf8))

\* A meta of the head that declares a charset (line 86).
DeclaresCharset(e) ==
  /\ e.tag = "meta"
  /\ (Truthy(e.ref) \/ (e.http_equiv # << >> /\ HasSubstring(Lower(e.http_equiv), S_content_type)))

\* Lines 93-96: the effective base, [ok, v].  soup.find('base') is the first
\* base element, whether or not it has an href.
effective_base(elems, original_url) ==
  With(SelectSeq(elems, LAMBDA e : e.tag = "base"), LAMBDA bases :
    IF bases # << >> /\ Truthy(bases[1].ref)
    THEN make_absolute_url(original_url, bases[1].ref.v)
    ELSE [ok |-> TRUE, v |-> get_base_url(original_url)])

\* Lines 99-104, for one element: [ok, e]; ok is false where
\* make_absolute_url raises.
rewrite_anchor(e, base_url, proxy_base) ==
  IF e.tag = "a" /\ e.ref.some
     /\ ~\E p \in skipped_href_prefixes : StartsWith(e.ref.v, p)
  THEN With(make_absolute_url(base_url, e.ref.v), LAMBDA abs :
         IF ~abs.ok THEN [ok |-> FALSE, e |-> e]
         ELSE IF is_valid_url(abs.v)
           THEN [ok |-> TRUE,
                 e |-> [e EXCEPT !.ref = Some(proxy_base \o S_browse_query \o quote(abs.v))]]
         ELSE [ok |-> TRUE, e |-> e])
  ELSE [ok |-> TRUE, e |-> e]

\* Lines 107-114, for one element: the action becomes {proxy_base}/browse
\* and a hidden _proxy_url input is inserted as the form's first child.
rewrite_form(e, base_url, proxy_base) ==
  IF e.tag = "form" /\ Truthy(e.ref)
  THEN With(make_absolute_url(base_url, e.ref.v), LAMBDA abs :
         IF ~abs.ok THEN [ok |-> FALSE, e |-> e]
         ELSE IF is_valid_url(abs.v)
           THEN [ok |-> TRUE,
                 e |-> [e EXCEPT !.ref = Some(proxy_base \o S_browse),
                                 !.fields = << Field(S_proxy_url, abs.v) >> \o e.fields]]
         ELSE [ok |-> TRUE, e |-> e])
  ELSE [ok |-> TRUE, e |-> e]

\* Mutant of rewrite_resource: the identifier is the percent-encoded URL,
\* as in the links, instead of the codec's.
rewrite_resource_quoted(e, base_url, proxy_base) ==
  IF e.tag \in resource_tags /\ Truthy(e.ref)
  THEN With(make_absolute_url(base_url, e.ref.v), LAMBDA abs :
         IF ~abs.ok THEN [ok |-> FALSE, e |-> e]
         ELSE IF is_valid_url(abs.v)
           THEN [ok |-> TRUE,
                 e |-> [e EXCEPT !.ref = Some(proxy_base \o S_resource \o quote(abs.v))]]
         ELSE [ok |-> TRUE, e |-> e])
  ELSE [ok |-> TRUE, e |-> e]

\* Lines 125-131, for one element.
rewrite_resource(e, base_url, proxy_base) ==
  IF e.tag \in resource_tags /\ Truthy(e.ref)
  THEN With(make_absolute_url(base_url, e.ref.v), LAMBDA abs :
         IF ~abs.ok THEN [ok |-> FALSE, e |-> e]
         ELSE IF is_valid_url(abs.v)
           THEN [ok |-> TRUE,
                 e |-> [e EXCEPT !.ref = Some(proxy_base \o S_resource \o encode_url(abs.v))]]
         ELSE [ok |-> TRUE, e |-> e])
  ELSE [ok |-> TRUE, e |-> e]

\* The three loops (lines 99-131) on one element: [ok, e].
rewrite_element(e, base_url, proxy_base) ==
  With(rewrite_anchor(e, base_url, proxy_base), LAMBDA a :
  With(rewrite_form(a.e, base_url, proxy_base), LAMBDA f :
  With(rewrite_resource(f.e, base_url, proxy_base), LAMBDA r :
    [ok |-> a.ok /\ f.ok /\ r.ok, e |-> r.e])))

\* rewrite_html_content(html_content, original_url, proxy_base), on the
\* parsed document.  html5lib always builds a head and a body, so the
\* charset metas of the head are replaced by one utf-8 meta placed first
\* and the payload script is appended to the body.  The three loops rewrite
\* disjoint tags, so one pass over the elements gives what they give.  An
\* exception anywhere is caught at line 207 and the original document is
\* returned as it came.
rewrite_html_content(html_content, original_url, proxy_base) ==
  With(SelectSeq(html_content, LAMBDA e : ~DeclaresCharset(e)), LAMBDA kept :
  With(effective_base(kept, original_url), LAMBDA base :
  With([i \in 1..Len(kept) |-> rewrite_element(kept[i], base.v, proxy_base)], LAMBDA out :
    IF base.ok /\ \A i \in 1..Len(kept) : out[i].ok
    THEN << CharsetMeta >> \o [i \in 1..Len(kept) |-> out[i].e] \o << ProxyScript >>
    ELSE html_content)))

(***************************************************************************)
(* The CSS rewriter (src/main.py, lines 211-231)                           *)
(***************************************************************************)

\* The characters \s matches among those of the model.
Whitespace == {" ", Chr(9), Chr(10), Chr(11), Chr(12), Chr(13)}

\* The characters the group [^"')\s]+ of url_pattern takes.
UrlChar(c) == c \notin {"\"", "'", ")"} \cup Whitespace

\* The index after the longest run, from index i (1-based), of characters
\* satisfying Test.
SkipWhile(s, i, Test(_)) ==
  LET stops == {j \in i..Len(s) : ~Test(s[j])}
  IN  IF stops = {} THEN (IF i > Len(s) THEN i ELSE Len(s) + 1)
      ELSE CHOOSE j \in stops : \A k \in stops : j <= k

IsSpace(c) == c \in Whitespace
IsQuote(c) == c \in {"\"", "'"}

\* One attempt of url_pattern at index i: [found, ref, next], next the index
\* after the match.  Every quantifier of the pattern is followed by a
\* character outside the class it repeats, so the greedy match is the only
\* one and no backtracking is involved.
match_url_pattern(s, i) ==
  With([found |-> FALSE, ref |-> << >>, next |-> i], LAMBDA nomatch :
  With(SkipWhile(s, i + 3, IsSpace), LAMBDA p2 :
  With(SkipWhile(s, p2 + 1, IsSpace), LAMBDA p3 :
  With(IF p3 <= Len(s) /\ IsQuote(s[p3]) THEN p3 + 1 ELSE p3, LAMBDA p4 :
  With(SkipWhile(s, p4, UrlChar), LAMBDA p5 :
  With(IF p5 <= Len(s) /\ IsQuote(s[p5]) THEN p5 + 1 ELSE p5, LAMBDA p6 :
  With(SkipWhile(s, p6, IsSpace), LAMBDA p7 :
    IF i + 2 > Len(s) \/ SubSeq(s, i, i + 2) # << "u", "r", "l" >> THEN nomatch
    ELSE IF p2 > Len(s) \/ s[p2] # "(" THEN nomatch
    ELSE IF p5 = p4 THEN nomatch
    ELSE IF p7 > Len(s) \/ s[p7] # ")" THEN nomatch
    ELSE [found |-> TRUE, ref |-> SubSeq(s, p4, p5 - 1), next |-> p7 + 1])))))))

\* str.strip()
RECURSIVE RStrip(_, _)
RStrip(s, chars) ==
  IF s # << >> /\ s[Len(s)] \in chars THEN RStrip(Take(s, Len(s) - 1), chars) ELSE s

Strip(s) == RStrip(LStrip(s, Whitespace), Whitespace)

S_data == << "d", "a", "t", "a", ":" >>
S_hash == << "#" >>
S_css_open == << "u", "r", "l", "(", "\"" >>
S_css_close == << "\"", ")" >>

\* replace_url(match): [ok, v], the replacement of one match; ok is false
\* where make_absolute_url raises.
replace_url(whole, ref, original_url, proxy_base) ==
  With(Strip(ref), LAMBDA url :
  With(make_absolute_url(original_url, url), LAMBDA abs :
    IF StartsWith(url, S_data) \/ StartsWith(url, S_hash) THEN [ok |-> TRUE, v |-> whole]
    ELSE IF ~abs.ok THEN [ok |-> FALSE, v |-> whole]
    ELSE IF is_valid_url(abs.v)
      THEN [ok |-> TRUE,
            v |-> S_css_open \o proxy_base \o S_resource \o encode_url(abs.v) \o S_css_close]
    ELSE [ok |-> TRUE, v |-> whole]))

\* re.sub(url_pattern, replace_url, css_content) from index i on: the
\* leftmost match is replaced, the text before it kept, and the search goes
\* on after it; [ok, v].
RECURSIVE css_sub(_, _, _, _)
css_sub(s, i, original_url, proxy_base) ==
  With({j \in i..Len(s) : match_url_pattern(s, j).found}, LAMBDA starts :
    IF starts = {} THEN [ok |-> TRUE, v |-> SubSeq(s, i, Len(s))]
    ELSE
      With(CHOOSE j \in starts : \A k \in starts : j <= k, LAMBDA j :
      With(match_url_pattern(s, j), LAMBDA m :
      With(replace_url(SubSeq(s, j, m.next - 1), m.ref, original_url, proxy_base), LAMBDA r :
      With(css_sub(s, m.next, original_url, proxy_base), LAMBDA rest :
        [ok |-> r.ok /\ rest.ok, v |-> SubSeq(s, i, j - 1) \o r.v \o rest.v])))))

\* rewrite_css_content(css_content, original_url, proxy_base): an exception
\* of replace_url leaves re.sub and is caught at line 229, which returns the
\* stylesheet as it came.
rewrite_css_content(css_content, original_url, proxy_base) ==
  With(css_sub(css_content, 1, original_url, proxy_base), LAMBDA r :
    IF r.ok THEN r.v ELSE css_content)

(***************************************************************************)
(* The upstream fetch                                                      *)
(*                                                                         *)
(* session.get / session.post either returns a response (its content type, *)
(* its final URL after redirects, its content) or raises.  What goes wrong  *)
(* with a fetch is named by the error it ends in below requests; the        *)
(* exception raised is named by its class, and BaseClasses gives the        *)
(* classes an except clause can catch it as (requests.exceptions).          *)
(***************************************************************************)

\* How a fetch can fail: the connection is not made in time, the response
\* does not come in time, the connection is refused, the redirects do not
\* end, or something outside requests goes wrong.
UpstreamFailures ==
  {"ConnectTimeoutError", "ReadTimeoutError", "NewConnectionError", "TooManyRedirects",
   "UnicodeError"}

\* Retry(total=3) of create_session (lines 18-22).
RetryTotal == 3

\* The methods urllib3's Retry repeats a request of (allowed_methods, which
\* create_session leaves at its default): GET is one, POST is not.
RetriedVerbs == {"get"}

\* The exception a session of create_session() (lines 16-26) raises for a
\* failure.  The adapter mounted at lines 23-25 repeats a request that
\* timed out while the retry strategy allows; when the retries are used up
\* urllib3 raises MaxRetryError, which requests raises as ConnectTimeout
\* when its reason is a connect timeout and as ConnectionError otherwise,
\* a read timeout included.  A read timeout of a request that is not
\* repeated is raised as ReadTimeout.
session_raises(verb, failure) ==
  CASE failure = "ConnectTimeoutError" -> "ConnectTimeout"
    [] failure = "ReadTimeoutError" ->
         IF RetryTotal > 0 /\ verb \in RetriedVerbs THEN "ConnectionError" ELSE "ReadTimeout"
    [] failure = "NewConnectionError" -> "ConnectionError"
    [] OTHER -> failure

BaseClasses(exc) ==
  CASE exc = "ConnectTimeout"   -> {"ConnectTimeout", "ConnectionError", "Timeout",
                                    "RequestException", "Exception"}
    [] exc = "ReadTimeout"      -> {"ReadTimeout", "Timeout", "RequestException", "Exception"}
    [] exc = "ConnectionError"  -> {"ConnectionError", "RequestException", "Exception"}
    [] exc = "TooManyRedirects" -> {"TooManyRedirects", "RequestException", "Exception"}
    [] OTHER                    -> {exc, "Exception"}

\* A response of the upstream, or an exception of the fetch and the failure
\* it came of.
Returned(content_type, url, doc, css) ==
  [raised |-> "", failure |-> "", content_type |-> content_type, url |-> url, doc |-> doc,
   css |-> css]

Failed(failure, exc) ==
  [raised |-> exc, failure |-> failure, content_type |-> "", url |-> << >>, doc |-> << >>,
   css |-> << >>]

\* No fetch was made.
NoFetch == Failed("", "")

\* timeout= of the two fetches (lines 457, 459 and 510).
BrowseTimeout == 30
ResourceTimeout == 15

(***************************************************************************)
(* Requests and responses                                                  *)
(***************************************************************************)

\* MultiDict.get(name): the first value of that name, or None.
Get(params, name) ==
  With(SelectSeq(params, LAMBDA f : f.name = name), LAMBDA hits :
    IF hits = << >> THEN None ELSE Some(hits[1].value))

\* MultiDict.items(): the first value of each name, in order of appearance.
Items(params) ==
  LET first(i) == \A j \in 1..(i - 1) : params[j].name # params[i].name
      RECURSIVE pick(_)
      pick(i) == IF i > Len(params) THEN << >>
                 ELSE IF first(i) THEN << params[i] >> \o pick(i + 1)
                 ELSE pick(i + 1)
  IN  pick(1)

Response(status, content_type, text, detail, doc, css) ==
  [status |-> status, content_type |-> content_type, text |-> text, detail |-> detail,
   doc |-> doc, css |-> css]

\* A plain-text reply, as Flask makes it of a (str, status) pair.
Plain(status, text, detail) == Response(status, "text/html; charset=utf-8", text, detail, << >>, << >>)

\* A session.get or session.post call.
Call(verb, url, data, timeout) == [verb |-> verb, url |-> url, data |-> data, timeout |-> timeout]

(***************************************************************************)
(* /browse (src/main.py, lines 422-494)                                    *)
(***************************************************************************)

\* Lines 429-433: the target URL of the request.
browse_target(method, params) ==
  With(Get(params, S_url), LAMBDA url :
  With(Get(params, S_proxy_url), LAMBDA proxy_url :
    IF method = "POST"
    THEN IF Truthy(url) THEN url.v
         ELSE IF proxy_url.some THEN proxy_url.v ELSE << >>
    ELSE IF url.some THEN Strip(url.v) ELSE << >>))

\* Lines 431 and 434: the form fields forwarded upstream.
browse_form_data(method, params) ==
  IF method = "POST"
  THEN SelectSeq(Items(params), LAMBDA f : f.name \notin {S_url, S_proxy_url})
  ELSE << >>

\* Lines 440-441.
add_protocol(target_url) ==
  IF StartsWith(target_url, S_http_prefix) \/ StartsWith(target_url, S_https_prefix)
  THEN target_url
  ELSE S_https_prefix \o target_url

\* Mutant of browse_rejects: the validation left out.
browse_rejects_nothing(target_url) == FALSE

\* Line 443: the request is refused before any fetch.
browse_rejects(target_url) == ~is_valid_url(target_url)

\* Lines 456-459: the fetch of the target.
browse_call(method, target_url, form_data) ==
  IF method = "POST" /\ form_data # << >>
  THEN Call("post", target_url, form_data, BrowseTimeout)
  ELSE Call("get", target_url, << >>, BrowseTimeout)

\* Lines 485-494: the except clauses, in order.
browse_except(exc) ==
  IF "Timeout" \in BaseClasses(exc) THEN Plain(504, "Request timed out", << >>)
  ELSE IF "ConnectionError" \in BaseClasses(exc)
    THEN Plain(502, "Could not connect to the website", << >>)
  ELSE IF "RequestException" \in BaseClasses(exc)
    THEN Plain(500, "Error fetching website: ", << exc >>)
  ELSE Plain(500, "An unexpected error occurred", << >>)

\* Lines 461-483: the reply made of a fetched response.  The bytes are
\* decoded (chardet, then utf-8 ignoring errors) to the text the parser
\* reads; the model holds the content already as that document.
browse_reply(fetched, proxy_base) ==
  IF fetched.content_type = "text/html"
  THEN Response(200, "text/html; charset=utf-8", "", << >>,
                rewrite_html_content(fetched.doc, fetched.url, proxy_base), << >>)
  ELSE Response(200, fetched.content_type, "", << >>, fetched.doc, fetched.css)

\* Whether browse() gets as far as the fetch.
browse_fetches(method, params) ==
  With(browse_target(method, params), LAMBDA target_url :
    target_url # << >> /\ ~browse_rejects(add_protocol(target_url)))

\* browse(): [response, calls], fetched being what the fetch returns or
\* raises when browse() makes it.
browse(method, params, proxy_base, fetched) ==
  With(browse_target(method, params), LAMBDA target0 :
  With(add_protocol(target0), LAMBDA target_url :
  With(<< browse_call(method, target_url, browse_form_data(method, params)) >>, LAMBDA made :
    IF target0 = << >>
      THEN [response |-> Plain(400, "URL is required", << >>), calls |-> << >>]
    ELSE IF browse_rejects(target_url)
      THEN [response |-> Plain(400, "Invalid or unsupported URL: ", target_url),
            calls |-> << >>]
    ELSE IF fetched.raised # ""
      THEN [response |-> browse_except(fetched.raised), calls |-> made]
    ELSE [response |-> browse_reply(fetched, proxy_base), calls |-> made])))

(***************************************************************************)
(* /resource/<encoded_url> (src/main.py, lines 496-534)                    *)
(***************************************************************************)

\* Mutant of resource_rejects: only an undecodable identifier is refused.
resource_rejects_undecodable(target_url) == ~Truthy(target_url)

\* Line 503: the identifier is refused before any fetch.
resource_rejects(target_url) == ~Truthy(target_url) \/ ~is_valid_url(target_url.v)

\* Lines 532-534: every exception gives the same reply.
resource_except(exc) == Plain(404, "Error loading resource", << >>)

\* Lines 512-530: the reply made of a fetched response.  The stylesheet is
\* rewritten against target_url, the URL that was requested.
resource_reply(fetched, target_url, proxy_base) ==
  IF fetched.content_type = "text/css"
  THEN Response(200, "text/css; charset=utf-8", "", << >>, << >>,
                rewrite_css_content(fetched.css, target_url, proxy_base))
  ELSE Response(200, fetched.content_type, "", << >>, fetched.doc, fetched.css)

\* Line 510: the fetch of the resource.
resource_call(target_url) == Call("get", target_url, << >>, ResourceTimeout)

resource_fetches(encoded_url) == ~resource_rejects(decode_url(encoded_url))

\* proxy_resource(encoded_url): [response, calls].
proxy_resource(encoded_url, proxy_base, fetched) ==
  With(decode_url(encoded_url), LAMBDA target_url :
  With(<< resource_call(target_url.v) >>, LAMBDA made :
    IF resource_rejects(target_url)
      THEN [response |-> Plain(400, "Invalid resource URL", << >>), calls |-> << >>]
    ELSE IF fetched.raised # ""
      THEN [response |-> resource_except(fetched.raised), calls |-> made]
    ELSE [response |-> resource_reply(fetched, target_url.v, proxy_base),
          calls |-> made]))

(***************************************************************************)
(* The inputs                                                              *)
(***************************************************************************)

\* The longest document, in elements; the longest stylesheet, in url()
\* references; the longest string given to the codec, in characters.
MaxElems == 2
MaxCssRefs == 2
MaxLen == 3

\* request.url_root.rstrip('/') of the requests.
ProxyBase == << "h", "t", "t", "p", ":", "/", "/", "p", ".", "t" >>

\* Where a redirecting upstream ends.
RedirectUrl == << "h", "t", "t", "p", "s", ":", "/", "/", "r", ".", "c", "o", "/", "d", "/", "e" >>

\* The elements documents are made of, in document order.
ElementPool ==
  << [Element("meta", None) EXCEPT !.http_equiv = << "C", "o", "n", "t", "e", "n", "t", "-", "T", "y", "p", "e" >>],
     Element("base", Some(<< "/", "d", "/" >>)),
     Element("a", Some(<< "/", "x", "?", "q", "=", "U+233", "&", "r" >>)),
     Element("a", Some(<< "j", "a", "v", "a", "s", "c", "r", "i", "p", "t", ":", "f", "(", ")" >>)),
     Element("a", Some(<< "#", "t" >>)),
     Element("a", Some(<< "f", "t", "p", ":", "/", "/", "h", "/", "x" >>)),
     Element("a", Some(<< "/", "/", "[", "x" >>)),
     Element("img", Some(<< "/", "l", ".", "p", "n", "g" >>)),
     Element("link", Some(<< "/", "/", "c", ".", "c", "o", "/", "s", ".", "c", "s", "s" >>)),
     Element("iframe", Some(<< "d", "a", "t", "a", ":", "x" >>)),
     Form(Some(<< "/", "s" >>), "get", << Field(<< "q" >>, << "1" >>) >>),
     Form(Some(<< "s" >>), "post", << Field(<< "q" >>, << "1" >>), Field(<< "q" >>, << "2" >>) >>),
     Form(Some(<< "/", "s" >>), "post", << Field(<< "u", "r", "l" >>, << "x", ".", "c", "o" >>), Field(<< "q" >>, << "1" >>) >>) >>

\* The sequences of at most n elements of pool, in its order.
OrderedPicks(pool, n) ==
  LET RECURSIVE pick(_, _)
      pick(I, k) == IF k > Len(pool) THEN << >>
                    ELSE (IF k \in I THEN << pool[k] >> ELSE << >>) \o pick(I, k + 1)
  IN  {pick(I, 1) : I \in {J \in SUBSET (1..Len(pool)) : Cardinality(J) <= n}}

Docs == OrderedPicks(ElementPool, MaxElems)

\* A url() reference of a stylesheet, as written: url(<open><ref><close>),
\* open and close being the blanks and quote around the reference.
CssRef(open, ref, close) == [open |-> open, ref |-> ref, close |-> close]

CssRefText(r) == << "u", "r", "l", "(" >> \o r.open \o r.ref \o r.close \o << ")" >>

\* The references stylesheets are made of.
CssPool ==
  << CssRef(<<  >>, << "/", "b", "g", ".", "p", "n", "g" >>, <<  >>),
     CssRef(<< " ", "\"" >>, << ".", ".", "/", "y", ".", "p", "n", "g" >>, << "\"", " " >>),
     CssRef(<< "'" >>, << "d", "a", "t", "a", ":", "A", "A", "A" >>, << "'" >>),
     CssRef(<<  >>, << "#", "f" >>, <<  >>),
     CssRef(<<  >>, << "/", "/", "[", "x" >>, <<  >>),
     CssRef(<<  >>, << "f", "t", "p", ":", "/", "/", "h", "/", "x" >>, <<  >>) >>

\* Declarations that hold no url() reference the pattern matches.
CssPlain == << "a", "{", "b", ":", "U", "R", "L", "(", "/", "z", ")", "}" >>

\* A stylesheet is a sequence of references, each after plain text.
RECURSIVE SheetText(_)
SheetText(refs) ==
  IF refs = << >> THEN CssPlain
  ELSE CssPlain \o CssRefText(Head(refs)) \o SheetText(Tail(refs))

SheetRefs == OrderedPicks(CssPool, MaxCssRefs)

\* The url values of the GET requests made to /browse.
UrlInputs ==
  { <<  >>,
    << "h", "t", "t", "p", "s", ":", "/", "/", "e", ".", "c", "o", "/", "a", "/", "b" >>,
    << "e", ".", "c", "o" >>,
    << " ", "e", ".", "c", "o", " " >>,
    << "j", "a", "v", "a", "s", "c", "r", "i", "p", "t", ":", "x" >>,
    << "d", "a", "t", "a", ":", "x" >>,
    << "f", "t", "p", ":", "/", "/", "h", "/", "x" >>,
    << "h", "t", "t", "p", ":", "/", "/", "u", ":", "p", "@", "h", "/" >>,
    << "h", "t", "t", "p", ":", "/", "/" >>,
    << "/", "p" >> }

\* The _proxy_url values of the requests made to /browse.
ProxyUrlInputs ==
  { << "h", "t", "t", "p", "s", ":", "/", "/", "o", ".", "c", "o", "/", "s" >> }

\* Other form fields of the requests.
ExtraFields ==
  { << >>, << Field(<< "q" >>, << "1" >>), Field(<< "q" >>, << "2" >>), Field(<< "r" >>, << "U+233" >>) >> }

\* The query parameters of the GET requests made to /browse: a url, none,
\* or a _proxy_url alone.
GetParams ==
  {<< >>} \cup {<< Field(S_url, v) >> : v \in UrlInputs}
  \cup {<< Field(S_proxy_url, v) >> : v \in ProxyUrlInputs}

\* The url values of the forms posted to /browse.
PostUrlInputs ==
  { <<  >>,
    << "e", ".", "c", "o" >>,
    << "d", "a", "t", "a", ":", "x" >>,
    << "h", "t", "t", "p", ":", "/", "/", "u", ":", "p", "@", "h", "/" >> }

\* The form fields of the POST requests made to /browse: a url or none, a
\* _proxy_url or none, other fields or none.
PostParams ==
  { u \o p \o x :
      u \in {<< >>} \cup {<< Field(S_url, v) >> : v \in PostUrlInputs},
      p \in {<< >>} \cup {<< Field(S_proxy_url, v) >> : v \in ProxyUrlInputs},
      x \in ExtraFields }

\* The identifiers of the requests made to /resource/<id>: identifiers of
\* valid URLs, with a stray character, without padding, undecodable, not
\* UTF-8, of URLs the validator rejects.
IdInputs ==
  { << "a", "H", "R", "0", "c", "H", "M", "6", "L", "y", "9", "l", "L", "m", "N", "v", "L", "3", "M", "u", "Y", "3", "N", "z" >>,
    << "a", "H", "R", "0", "c", "H", "M", "6", "L", "y", "9", "l", "L", "m", "N", "v", "L", "3", "M", "u", "Y", "3", "N", "z", "!" >>,
    << "a", "H", "R", "0", "c", "H", "M", "6", "L", "y", "9", "l", "L", "m", "N", "v", "L", "3", "M", "u", "Y", "3", "N" >>,
    << "Q" >>,
    << "_", "w", "=", "=" >>,
    << "Z", "n", "R", "w", "O", "i", "8", "v", "a", "C", "9", "4" >>,
    << "a", "H", "R", "0", "c", "D", "o", "v", "L", "3", "U", "6", "c", "E", "B", "o", "L", "w", "=", "=" >>,
    << "Z", "G", "F", "0", "Y", "T", "p", "4" >>,
    << "=" >>,
    << "a", "H", "R", "0", "c", "D", "o", "v", "L", "2", "U", "_" >> }

\* The characters of the strings given to the codec.
CodecChars == {"a", "/", ">", "?", Chr(233), Chr(8364), Chr(128512)}

RECURSIVE SeqsUpTo(_, _)
SeqsUpTo(S, n) ==
  IF n = 0 THEN {<< >>}
  ELSE LET shorter == SeqsUpTo(S, n - 1)
       IN  shorter \cup {Append(s, x) : s \in shorter, x \in S}

CodecStrings == SeqsUpTo(CodecChars, MaxLen)

(***************************************************************************)
(* The client: the pages the proxy served, and what is done with them      *)
(***************************************************************************)

\* Lines 140-167 of the payload script, run on the submit of a POST form:
\* [sent, params].  The target is the form's first _proxy_url value, or its
\* action; the body is {url: targetUrl, ...data}, data holding the last
\* value of every other name, so that a control named url replaces the
\* target.  When the target is empty or the proxy's own /browse nothing is
\* sent, the default submit being already prevented.
LastValue(fields, name) ==
  With(SelectSeq(fields, LAMBDA f : f.name = name), LAMBDA hits : hits[Len(hits)].value)

js_submit(form, proxy_base) ==
  With(Get(form.fields, S_proxy_url), LAMBDA proxied :
  With(IF Truthy(proxied) THEN proxied.v ELSE form.ref.v, LAMBDA targetUrl :
  With(SelectSeq(form.fields, LAMBDA f : f.name # S_proxy_url), LAMBDA others :
  With(Items(others), LAMBDA names :
  With([i \in 1..Len(names) |-> Field(names[i].name, LastValue(others, names[i].name))],
       LAMBDA data :
  With(Get(data, S_url), LAMBDA own :
    [sent   |-> targetUrl # << >> /\ targetUrl # proxy_base \o S_browse,
     params |-> << Field(S_url, IF own.some THEN own.v ELSE targetUrl) >>
                \o SelectSeq(data, LAMBDA f : f.name # S_url)]))))))

\* The page the client shows: the URL the document came from, the document
\* as the upstream sent it, and the document as the proxy served it.
NoPage == [url |-> << >>, src |-> << >>, elems |-> << >>]

RequestOf(route, method, params, id, via, index) ==
  [route |-> route, method |-> method, params |-> params, id |-> id, via |-> via,
   index |-> index]

HomeRequest == RequestOf("home", "GET", << >>, << >>, "direct", 0)

\* home(): the landing page, a fixed template.
HomeResponse == Response(200, "text/html; charset=utf-8", "home", << >>, << >>, << >>)

VARIABLES
  origin,   \* what the upstream serves: [content_type, doc, refs]
  page,     \* the page the client shows
  req,      \* the request handled last
  fetched,  \* what the upstream fetch of that request returned or raised
  resp,     \* the response to it
  calls,    \* the session.get / session.post calls made while handling it
  codec     \* a string on its way through encode_url and decode_url

vars == << origin, page, req, fetched, resp, calls, codec >>

CodecIdle == [pc |-> "idle", s |-> << >>, id |-> << >>, back |-> None]

Origins ==
  {[content_type |-> "text/html", doc |-> d, refs |-> << >>] : d \in Docs}
  \cup {[content_type |-> "text/css", doc |-> << >>, refs |-> r] : r \in SheetRefs}

Init ==
  /\ origin \in Origins
  /\ page = NoPage
  /\ req = HomeRequest
  /\ fetched = NoFetch
  /\ resp = HomeResponse
  /\ calls = << >>
  /\ codec = CodecIdle

\* What the fetch of a call can do: fail, or return the upstream's content,
\* or content of another type, from the target or from where a redirect led.
Fetches(call) ==
  {Failed(x, session_raises(call.verb, x)) : x \in UpstreamFailures}
  \cup {Returned(origin.content_type, u, origin.doc,
                 IF origin.content_type = "text/css" THEN SheetText(origin.refs) ELSE << >>) :
          u \in {call.url, RedirectUrl}}
  \cup {Returned("image/png", u, << >>, << >>) : u \in {call.url, RedirectUrl}}

\* The page after a response: a served HTML document replaces it.
PageAfter(f, r) ==
  IF r.status = 200 /\ f.raised = "" /\ f.content_type = "text/html"
  THEN [url |-> f.url, src |-> f.doc, elems |-> r.doc]
  ELSE NoPage

\* One whole run of browse() on a request.
HandleBrowse(method, params, via, index) ==
  \E f \in (IF browse_fetches(method, params)
            THEN Fetches(browse_call(method, add_protocol(browse_target(method, params)),
                                     browse_form_data(method, params)))
            ELSE {NoFetch}) :
    \E out \in {browse(method, params, ProxyBase, f)} :
        /\ req' = RequestOf("browse", method, params, << >>, via, index)
        /\ fetched' = f
        /\ resp' = out.response
        /\ calls' = out.calls
        /\ page' = PageAfter(f, out.response)
        /\ UNCHANGED << origin, codec >>

\* One whole run of proxy_resource() on an identifier.  The response is a
\* subresource: the page stays.
HandleResource(id, via, index) ==
  \E f \in (IF resource_fetches(id) THEN Fetches(resource_call(decode_url(id).v))
            ELSE {NoFetch}) :
    \E out \in {proxy_resource(id, ProxyBase, f)} :
        /\ req' = RequestOf("resource", "GET", << >>, id, via, index)
        /\ fetched' = f
        /\ resp' = out.response
        /\ calls' = out.calls
        /\ UNCHANGED << origin, page, codec >>

AtHome == req.route = "home"

\* GET / : the landing page.  Every request is handled on its own, the
\* server keeps nothing between two of them, so the requests a client makes
\* up itself all start here.
Home ==
  /\ ~AtHome
  /\ req' = HomeRequest
  /\ fetched' = NoFetch
  /\ resp' = HomeResponse
  /\ calls' = << >>
  /\ page' = NoPage
  /\ UNCHANGED << origin, codec >>

\* A request to /browse with parameters of the client's choosing.
Browse ==
  /\ AtHome
  /\ \E method \in {"GET", "POST"} :
       \E params \in (IF method = "GET" THEN GetParams ELSE PostParams) :
         HandleBrowse(method, params, "direct", 0)

\* A request to /resource/<id> with an identifier of the client's choosing.
Resource ==
  /\ AtHome
  /\ \E id \in IdInputs : HandleResource(id, "direct", 0)

\* The client follows a link the rewriter pointed at /browse.
FollowLink ==
  \E i \in 1..Len(page.elems) :
    LET e == page.elems[i]
        prefix == ProxyBase \o S_browse_query
    IN  /\ e.tag = "a" /\ e.ref.some /\ StartsWith(e.ref.v, prefix)
        /\ HandleBrowse("GET", << Field(S_url, query_decode(Drop(e.ref.v, Len(prefix)))) >>,
                        "link", i)

\* The client submits a form the rewriter pointed at /browse: the browser's
\* own submit (every control, by the form's method), or the payload
\* script's for a POST form when scripts run.
SubmitForm ==
  \E i \in 1..Len(page.elems), js \in BOOLEAN :
    LET e == page.elems[i]
        method == IF e.method = "post" THEN "POST" ELSE "GET"
    IN  /\ e.tag = "form" /\ e.ref = Some(ProxyBase \o S_browse)
        /\ IF js
           THEN /\ method = "POST"
                /\ ProxyScript \in Range(page.elems)
                /\ js_submit(e, ProxyBase).sent
                /\ HandleBrowse("POST", js_submit(e, ProxyBase).params, "form-js", i)
           ELSE HandleBrowse(method, e.fields, "form", i)

\* The client loads a resource the rewriter pointed at /resource/<id>.
LoadResource ==
  \E i \in 1..Len(page.elems) :
    LET e == page.elems[i]
        prefix == ProxyBase \o S_resource
    IN  /\ e.tag \in resource_tags /\ e.ref.some /\ StartsWith(e.ref.v, prefix)
        /\ HandleResource(Drop(e.ref.v, Len(prefix)), "load", i)

Next == Home \/ Browse \/ Resource \/ FollowLink \/ SubmitForm \/ LoadResource

Spec == Init /\ [][Next]_vars

(***************************************************************************)
(* The codec on its own: a string is encoded, the identifier decoded       *)
(***************************************************************************)

InitCodec ==
  /\ origin = [content_type |-> "text/html", doc |-> << >>, refs |-> << >>]
  /\ page = NoPage
  /\ req = HomeRequest
  /\ fetched = NoFetch
  /\ resp = HomeResponse
  /\ calls = << >>
  /\ codec \in {[pc |-> "given", s |-> s, id |-> << >>, back |-> None] : s \in CodecStrings}

Encode ==
  /\ codec.pc = "given"
  /\ codec' = [codec EXCEPT !.pc = "encoded", !.id = encode_url(codec.s)]
  /\ UNCHANGED << origin, page, req, fetched, resp, calls >>

Decode ==
  /\ codec.pc = "encoded"
  /\ codec' = [codec EXCEPT !.pc = "decoded", !.back = decode_url(codec.id)]
  /\ UNCHANGED << origin, page, req, fetched, resp, calls >>

NextCodec == Encode \/ Decode

SpecCodec == InitCodec /\ [][NextCodec]_vars

(***************************************************************************)
(* The properties checked                                                  *)
(***************************************************************************)

\* A URL that names a scheme of its own: one of the disallowed prefixes, or
\* a scheme that urlparse reads off it.  Input without a scheme, a bare host
\* name, is the input /browse completes with https://.
NamesScheme(u) ==
  \/ \E p \in problematic_prefixes : StartsWith(Lower(u), p)
  \/ urlparse(u, << >>).ok /\ urlparse(u, << >>).scheme # << >>

\* The url parameter of the request handled last, as browse() reads it.
RequestedUrl == browse_target(req.method, req.params)

BrowseOfUrl == req.route = "browse" /\ Truthy(Get(req.params, S_url))

\* C1: a request to /browse whose url the validator rejects (a disallowed
\* pseudo-scheme, a scheme other than http and https, http(s) without an
\* authority or with credentials) is answered with a 4xx status and no
\* upstream request is made while handling it.
C1_RejectedUrlIsRefused ==
  (BrowseOfUrl /\ NamesScheme(RequestedUrl) /\ ~is_valid_url(RequestedUrl))
    => (resp.status \in 400..499 /\ calls = << >>)

\* C2: every upstream request made by /browse or /resource/<id> is for a
\* URL that passes is_valid_url in the exact form given to the fetch: the
\* target after the https:// completion on /browse, the decoded identifier
\* on /resource; its scheme is http or https, its authority is not empty and
\* holds no user name or password, and it starts with no disallowed prefix.
C2_FetchedUrlIsValid ==
  \A i \in 1..Len(calls) :
    /\ is_valid_url(calls[i].url)
    /\ urlparse(calls[i].url, << >>).scheme \in {S_http, S_https}
    /\ urlparse(calls[i].url, << >>).netloc # << >>
    /\ ~Contains(urlparse(calls[i].url, << >>).netloc, "@")
    /\ ~\E p \in problematic_prefixes : StartsWith(Lower(calls[i].url), p)
    /\ req.route = "browse" => calls[i].url = add_protocol(RequestedUrl)
    /\ req.route = "resource" => Some(calls[i].url) = decode_url(req.id)

\* A fetch made by /browse for a target it completed with https://.
C2_Witness_CompletedTarget ==
  /\ req.route = "browse"
  /\ Len(calls) = 1
  /\ calls[1].url # RequestedUrl
  /\ calls[1].url = S_https_prefix \o RequestedUrl

\* The characters of an identifier that is usable as one path segment.
UrlSafeChars == Range(UrlSafeAlphabet) \cup {"="}

\* C3: decode_url(encode_url(s)) = s for every string s, and encode_url(s)
\* holds only characters of the URL-safe base64 alphabet and "=".
C3_CodecRoundTrip ==
  /\ codec.pc \in {"encoded", "decoded"} => Range(codec.id) \subseteq UrlSafeChars
  /\ codec.pc = "decoded" => codec.back = Some(codec.s)

\* A string with a character outside ASCII whose identifier holds one of
\* the two characters in which the URL-safe alphabet differs, decoded back.
C3_Witness_UrlSafeIdentifier ==
  /\ codec.pc = "decoded"
  /\ \E i \in 1..Len(codec.s) : Ord(codec.s[i]) > 127
  /\ Range(codec.id) \cap {"-", "_"} # {}
  /\ codec.back = Some(codec.s)

\* The names of the fields of a request other than url and _proxy_url.
OtherNames(params) ==
  {params[i].name : i \in 1..Len(params)} \ {S_url, S_proxy_url}

\* C4: on a POST to /browse whose form carries a _proxy_url field, that
\* value is the target, also when the form carries a url field, and every
\* other field is forwarded upstream in the body of the request.
C4_ProxyUrlTakesPrecedence ==
  (req.route = "browse" /\ req.method = "POST" /\ Truthy(Get(req.params, S_proxy_url)))
    => /\ resp.text # "URL is required"
       /\ resp.text = "Invalid or unsupported URL: "
            => resp.detail = add_protocol(Get(req.params, S_proxy_url).v)
       /\ \A i \in 1..Len(calls) :
            /\ calls[i].url = add_protocol(Get(req.params, S_proxy_url).v)
            /\ {calls[i].data[j].name : j \in 1..Len(calls[i].data)} = OtherNames(req.params)
            /\ \A j \in 1..Len(calls[i].data) :
                 \E k \in 1..Len(req.params) : req.params[k] = calls[i].data[j]

\* What decode_url makes of the identifier of the request handled last.
RequestedResource == decode_url(req.id)

\* C5: /resource/<id> answers 400, without an upstream request, when the
\* identifier cannot be decoded or decodes to a URL that is_valid_url
\* rejects; any failure of the fetch is answered 404 with the one fixed
\* message and nothing of the upstream error.
C5_ResourceFailures ==
  req.route = "resource"
    => /\ (~RequestedResource.some \/ ~is_valid_url(RequestedResource.v))
            => (resp.status = 400 /\ calls = << >>)
       /\ fetched.raised # ""
            => /\ resp.status = 404
               /\ resp.text = "Error loading resource"
               /\ resp.detail = << >>
               /\ resp.doc = << >> /\ resp.css = << >>

\* An identifier that decodes, to a URL the validator rejects, refused.
C5_Witness_InvalidAfterDecoding ==
  /\ req.route = "resource"
  /\ Truthy(RequestedResource)
  /\ ~is_valid_url(RequestedResource.v)
  /\ resp.status = 400

\* The fetches that exceeded the timeout, and those that found no
\* connection.
TimeoutFailures == {"ConnectTimeoutError", "ReadTimeoutError"}
ConnectionFailures == {"NewConnectionError"}

\* C6: on /browse a fetch that exceeded the timeout is answered 504, a
\* connection failure 502, any other exception 500, each with a short plain
\* text; a timeout is never answered with the 500 of the other exceptions.
C6_TimeoutIsDistinct ==
  (req.route = "browse" /\ fetched.failure # "")
    => /\ fetched.failure \in TimeoutFailures => resp.status = 504
       /\ fetched.failure \in ConnectionFailures => resp.status = 502
       /\ fetched.failure \notin TimeoutFailures \cup ConnectionFailures => resp.status = 500
       /\ resp.text \in {"Request timed out", "Could not connect to the website",
                         "Error fetching website: ", "An unexpected error occurred"}
       /\ resp.doc = << >> /\ resp.css = << >>

\* The same, of the exception browse() catches instead of the failure the
\* exception came of.
C6_HandlersInOrder ==
  (req.route = "browse" /\ fetched.raised # "")
    => /\ "Timeout" \in BaseClasses(fetched.raised) => resp.status = 504
       /\ ("Timeout" \notin BaseClasses(fetched.raised)
           /\ "ConnectionError" \in BaseClasses(fetched.raised)) => resp.status = 502
       /\ {"Timeout", "ConnectionError"} \cap BaseClasses(fetched.raised) = {}
            => resp.status = 500

\* A page of the proxy: the document the upstream sent (page.src), from
\* page.url, and the document the proxy served for it (page.elems).
PageServed == page # NoPage

\* The elements of a document that the charset pass keeps.
Kept(doc) == SelectSeq(doc, LAMBDA e : ~DeclaresCharset(e))

\* The base the references of the page are resolved against.
PageBase == effective_base(Kept(page.src), page.url)

SourceAnchors == SelectSeq(page.src, LAMBDA e : e.tag = "a")
ServedAnchors == SelectSeq(page.elems, LAMBDA e : e.tag = "a")

\* What C7 asks of one anchor: src as the upstream sent it, out as served.
\* An href that cannot be resolved at all (urljoin raises on it) is asked
\* nothing.
AnchorAsClaimed(src, out) ==
  IF ~src.ref.some \/ \E p \in skipped_href_prefixes : StartsWith(src.ref.v, p)
  THEN out = src
  ELSE IF ~make_absolute_url(PageBase.v, src.ref.v).ok THEN TRUE
  ELSE IF is_valid_url(make_absolute_url(PageBase.v, src.ref.v).v)
    THEN /\ out.ref.some
         /\ StartsWith(out.ref.v, ProxyBase \o S_browse_query)
         /\ query_decode(Drop(out.ref.v, Len(ProxyBase \o S_browse_query)))
              = make_absolute_url(PageBase.v, src.ref.v).v
         /\ [out EXCEPT !.ref = src.ref] = src
  ELSE out = src

\* C7: every anchor href of a document given to rewrite_html_content is
\* left unchanged when it begins with javascript:, #, mailto: or tel:, is
\* otherwise resolved against the effective base and, when the resolved
\* URL passes is_valid_url, replaced by {proxy_base}/browse?url= followed by
\* the percent-encoded absolute URL, whose decoded value is that URL; an
\* href whose resolved URL fails validation is left as it was.
C7_AnchorsRewritten ==
  (PageServed /\ PageBase.ok)
    => /\ Len(ServedAnchors) = Len(SourceAnchors)
       /\ \A k \in 1..Len(SourceAnchors) :
            AnchorAsClaimed(SourceAnchors[k], ServedAnchors[k])

\* The same, for the documents in which urljoin raises on no reference.
EveryReferenceResolves ==
  \A i \in 1..Len(page.src) :
    page.src[i].ref.some => make_absolute_url(PageBase.v, page.src[i].ref.v).ok

C7_AnchorsRewrittenWhenAllResolve ==
  (PageServed /\ PageBase.ok /\ EveryReferenceResolves) => C7_AnchorsRewritten

SourceResources == SelectSeq(page.src, LAMBDA e : e.tag \in resource_tags)
ServedResources == SelectSeq(page.elems, LAMBDA e : e.tag \in resource_tags)

\* The identifier of a reference that points at /resource/.
ResourceId(ref) == Drop(ref, Len(ProxyBase \o S_resource))

\* C8: every src of img, script, source and iframe and every href of link
\* that rewrite_html_content rewrote is {proxy_base}/resource/{id}, where
\* decode_url(id) is the reference resolved against the effective base, a
\* URL that passes is_valid_url; a request to /resource for an identifier
\* the rewriter emitted is never answered 400.
C8_ResourceIdentifiers ==
  /\ PageServed
       => /\ Len(ServedResources) = Len(SourceResources)
          /\ \A k \in 1..Len(SourceResources) :
               ServedResources[k] # SourceResources[k]
                 => /\ ServedResources[k].ref.some
                    /\ StartsWith(ServedResources[k].ref.v, ProxyBase \o S_resource)
                    /\ make_absolute_url(PageBase.v, SourceResources[k].ref.v).ok
                    /\ decode_url(ResourceId(ServedResources[k].ref.v))
                         = Some(make_absolute_url(PageBase.v, SourceResources[k].ref.v).v)
                    /\ is_valid_url(decode_url(ResourceId(ServedResources[k].ref.v)).v)
                    /\ [ServedResources[k] EXCEPT !.ref = SourceResources[k].ref]
                         = SourceResources[k]
  /\ (req.route = "resource" /\ req.via = "load") => resp.status # 400

\* A resource of a served page, loaded by the identifier the rewriter gave
\* it and fetched from the URL the reference resolves to.
C8_Witness_LoadedResource ==
  /\ req.route = "resource" /\ req.via = "load"
  /\ page.elems[req.index].ref.v = ProxyBase \o S_resource \o req.id
  /\ Len(calls) = 1
  /\ \E k \in 1..Len(SourceResources) :
       calls[1].url = make_absolute_url(PageBase.v, SourceResources[k].ref.v).v
  /\ resp.status = 200

\* A stylesheet fetched for /resource/<id> from the URL that was asked for
\* (no redirect led elsewhere) and served rewritten.
SheetServed ==
  /\ req.route = "resource"
  /\ fetched.raised = "" /\ fetched.content_type = "text/css"
  /\ Len(calls) = 1 /\ fetched.url = calls[1].url
  /\ resp.status = 200

\* The URL a reference of the served stylesheet resolves to: [ok, v].
SheetResolved(r) == make_absolute_url(fetched.url, r.ref)

\* What C9 asks of one url() reference, as text.  A reference that cannot
\* be resolved at all (urljoin raises on it) is asked to stay as written.
RefAsClaimed(r) ==
  IF StartsWith(r.ref, S_data) \/ StartsWith(r.ref, S_hash) THEN CssRefText(r)
  ELSE IF ~SheetResolved(r).ok THEN CssRefText(r)
  ELSE IF is_valid_url(SheetResolved(r).v)
    THEN S_css_open \o ProxyBase \o S_resource \o encode_url(SheetResolved(r).v) \o S_css_close
  ELSE CssRefText(r)

RECURSIVE SheetAsClaimed(_)
SheetAsClaimed(refs) ==
  IF refs = << >> THEN CssPlain
  ELSE CssPlain \o RefAsClaimed(Head(refs)) \o SheetAsClaimed(Tail(refs))

\* C9: every url(...) reference of a stylesheet given to
\* rewrite_css_content is left as written when it starts with data: or #,
\* is otherwise resolved against the URL of the stylesheet and, when the
\* resolved URL passes is_valid_url, replaced by
\* url("{proxy_base}/resource/{id}") with decode_url(id) the resolved URL;
\* a reference whose resolved URL is invalid and all the text outside the
\* references are left as written.
C9_StylesheetRewritten ==
  SheetServed
    => /\ resp.css = SheetAsClaimed(origin.refs)
       /\ \A k \in 1..Len(origin.refs) :
            (SheetResolved(origin.refs[k]).ok /\ is_valid_url(SheetResolved(origin.refs[k]).v))
              => decode_url(encode_url(SheetResolved(origin.refs[k]).v))
                   = Some(SheetResolved(origin.refs[k]).v)

\* The same, for the stylesheets in which urljoin raises on no reference.
C9_StylesheetRewrittenWhenAllResolve ==
  (SheetServed /\ \A k \in 1..Len(origin.refs) :
                    \/ StartsWith(origin.refs[k].ref, S_data)
                    \/ StartsWith(origin.refs[k].ref, S_hash)
                    \/ SheetResolved(origin.refs[k]).ok)
    => C9_StylesheetRewritten

\* The forms of a document, in order: the k-th form served is the k-th form
\* the upstream sent.
FormsOf(doc) == SelectSeq(doc, LAMBDA e : e.tag = "form")

\* The form of the upstream's document that the i-th element served is.
SourceForm(pg, i) == FormsOf(pg.src)[Len(FormsOf(SubSeq(pg.elems, 1, i)))]

\* The absolute URL of the action of that form: [ok, v].
SourceAction(pg, i) ==
  make_absolute_url(effective_base(Kept(pg.src), pg.url).v, SourceForm(pg, i).ref.v)

\* What C10 asks of the submission rq of the i-th element of the page pg,
\* answered rs after the upstream requests made.
SubmissionAsClaimed(pg, rq, rs, made) ==
  /\ rs.text # "URL is required"
  /\ rs.text = "Invalid or unsupported URL: " => rs.detail = SourceAction(pg, rq.index).v
  /\ \A c \in 1..Len(made) :
       /\ made[c].url = SourceAction(pg, rq.index).v
       /\ \A f \in 1..Len(SourceForm(pg, rq.index).fields) :
            \E d \in 1..Len(made[c].data) :
              made[c].data[d].name = SourceForm(pg, rq.index).fields[f].name

\* C10: a form whose action rewrite_html_content rewrote, submitted to
\* /browse with its own method and its fields, has its original absolute
\* action URL taken as the target and its fields sent upstream; the
\* submission is never answered "URL is required" and never fetches another
\* URL.
C10_FormSubmission ==
  [][ req'.via \in {"form", "form-js"}
        => SubmissionAsClaimed(page, req', resp', calls') ]_vars

\* The same, for the forms submitted by POST that hold no control named
\* url.
C10_PostFormSubmission ==
  [][ (/\ req'.via \in {"form", "form-js"}
       /\ req'.method = "POST"
       /\ ~Get(SourceForm(page, req'.index).fields, S_url).some)
        => SubmissionAsClaimed(page, req', resp', calls') ]_vars

\* The fetch returned content from another URL than the one requested: a
\* redirect was followed.
Redirected ==
  /\ Len(calls) = 1 /\ fetched.raised = ""
  /\ fetched.url # calls[1].url

\* The elements of a document whose reference the rewriter handles.
Referencing(doc) == SelectSeq(doc, LAMBDA e : e.tag \in {"a", "form"} \cup resource_tags)

\* The absolute URL that a rewritten element sends the client to.
RewrittenTarget(e) ==
  IF e.tag = "a" THEN query_decode(Drop(e.ref.v, Len(ProxyBase \o S_browse_query)))
  ELSE IF e.tag = "form" THEN Get(e.fields, S_proxy_url).v
  ELSE decode_url(ResourceId(e.ref.v)).v

\* The URL a reference of the fetched document resolves to against the
\* base of the final URL: [ok, v].
ResolvedAgainstFinal(ref) ==
  make_absolute_url(effective_base(Kept(fetched.doc), fetched.url).v, ref)

\* The HTML half: every reference that the rewrite of a redirected page
\* changed points at the reference resolved against the final URL.
PageAgainstFinalUrl ==
  (req.route = "browse" /\ PageServed /\ Redirected)
    => /\ Len(Referencing(page.elems)) = Len(Referencing(fetched.doc))
       /\ \A k \in 1..Len(Referencing(fetched.doc)) :
            Referencing(page.elems)[k] # Referencing(fetched.doc)[k]
              => /\ ResolvedAgainstFinal(Referencing(fetched.doc)[k].ref.v).ok
                 /\ RewrittenTarget(Referencing(page.elems)[k])
                      = ResolvedAgainstFinal(Referencing(fetched.doc)[k].ref.v).v

\* A stylesheet fetched for /resource/<id> after a redirect, and served
\* with some reference rewritten.
RedirectedSheetRewritten ==
  /\ req.route = "resource" /\ Redirected
  /\ fetched.content_type = "text/css"
  /\ resp.status = 200
  /\ resp.css # fetched.css

\* The CSS half: the references that the rewrite of a redirected stylesheet
\* changed point at the references resolved against the final URL.
SheetAgainstFinalUrl ==
  RedirectedSheetRewritten => resp.css = SheetAsClaimed(origin.refs)

\* C11: whenever the fetch followed a redirect, so that the final URL is
\* not the requested one, the rewrite of the fetched content resolves the
\* relative references against the final URL and not the requested one,
\* in the HTML rewrite of /browse and in the CSS rewrite of /resource/<id>.
C11_RewriteAgainstFinalUrl == PageAgainstFinalUrl /\ SheetAgainstFinalUrl

\* The HTML half alone: rewrite_html_content is given response.url.
C11_PageAgainstFinalUrl == PageAgainstFinalUrl

\* A redirected page served with a relative reference rewritten to another
\* URL than the requested one would have given.
C11_Witness_RedirectedPage ==
  /\ req.route = "browse" /\ PageServed /\ Redirected
  /\ \E k \in 1..Len(Referencing(fetched.doc)) :
       /\ Referencing(page.elems)[k] # Referencing(fetched.doc)[k]
       /\ make_absolute_url(effective_base(Kept(fetched.doc), calls[1].url).v,
                            Referencing(fetched.doc)[k].ref.v).v
            # RewrittenTarget(Referencing(page.elems)[k])

=============================================================================
